---- MODULE Spec2Model ----
(***************************************************************************)
(* Model of src/server.js: the GameRoom class, the room registry, the      *)
(* socket.io event handlers and the one-second interval callback.          *)
(*                                                                         *)
(* JavaScript values are represented as follows.  A null socket id or      *)
(* interval handle is the string "null", a null object is the record       *)
(* Null.  A JavaScript number is a one-element sequence <<n>> and           *)
(* NaN / undefined is the empty sequence, so that a countdown started      *)
(* from a missing clueTime can be told from a numeric one.  GameRoom       *)
(* objects live in a heap indexed by object ids, because the interval      *)
(* callback closes over the room object and not over the room id.          *)
(***************************************************************************)
EXTENDS Integers, Sequences, FiniteSets, TLC

\* ------------------------------------------------------------------ bounds
MaxScore == 1
MaxRound == 2
MaxClueTime == 2
MaxStrLen == 3
MaxStarts == 3

\* ------------------------------------------------------------- vocabulary
None == "null"
Null == [null |-> TRUE]
NaN == <<>>
Num(n) == <<n>>
IsNum(v) == Len(v) = 1

MAX_PLAYERS == 2

Conns == {"A", "B", "C"}
RoomIds == {"R1", "R2"}
\* The sockets and room ids of the main specification.
MainConns == {"A", "B"}
MainRooms == {"R1"}
\* A room id that is falsy in JavaScript.
FalsyRoomId == ""
ObjOrder == <<"o1", "o2", "o3">>
ObjIds == {ObjOrder[i] : i \in 1..Len(ObjOrder)}
HandleOrder == <<"t1", "t2", "t3">>
Handles == {HandleOrder[i] : i \in 1..Len(HandleOrder)}

DEFAULT_CLUE_SCHEDULE ==
  <<"region", "main_export", "population", "currency",
    "language", "fun_fact", "cities", "flag">>

\* The catalog: two entities, name as a sequence of characters, and region.
COUNTRIES_AND_CITIES ==
  << [country |-> <<"P", "e", "r", "u">>, region |-> "Americas"],
     [country |-> <<"C", "h", "a", "d">>, region |-> "Africa"] >>

\* ------------------------------------------------------- sequence helpers
RECURSIVE SelectKeys(_, _)
\* Array.prototype.filter on the master list, by membership in a key set.
SelectKeys(s, keys) ==
  IF s = <<>> THEN <<>>
  ELSE IF Head(s) \in keys THEN <<Head(s)>> \o SelectKeys(Tail(s), keys)
       ELSE SelectKeys(Tail(s), keys)

RECURSIVE SelectRegion(_, _)
\* Array.prototype.filter on the catalog, by region membership.
SelectRegion(s, regions) ==
  IF s = <<>> THEN <<>>
  ELSE IF Head(s).region \in regions
       THEN <<Head(s)>> \o SelectRegion(Tail(s), regions)
       ELSE SelectRegion(Tail(s), regions)

\* Array.prototype.slice(0, n) for an integer n (negative n counts from
\* the end) and for undefined n (the whole array).
Slice0(s, n) ==
  IF ~IsNum(n) THEN s
  ELSE LET k == n[1]
           e == IF k < 0 THEN (IF Len(s) + k < 0 THEN 0 ELSE Len(s) + k)
                ELSE (IF k > Len(s) THEN Len(s) ELSE k)
       IN SubSeq(s, 1, e)

\* ------------------------------------------------------------------ state
VARIABLES
  rooms,      \* the Map, in insertion order: entries [id, obj]
  heap,       \* object id -> GameRoom fields (FreeCell when unreferenced)
  timers,     \* setInterval handles: handle -> captured room object, or None
  members,    \* socket.io group of each room id (socket.join)
  connected,  \* sockets whose disconnect has not happened yet
  thrown,     \* TRUE once a handler has thrown (uncaught: the process ends)
  strs,       \* a string and the results of applying normalize to it in turn
  starts     \* object id -> rounds started on the room object so far, kept
              \* by the scoring specification only (-1: not counted)

vars == <<rooms, heap, timers, members, connected, thrown, strs, starts>>

\* The part of the state a handler works on, as one value, together with
\* the list of the events the handler emits, in order.
World ==
  [rooms |-> rooms, heap |-> heap, timers |-> timers,
   members |-> members, emitted |-> <<>>, thrown |-> FALSE]

\* ---------------------------------------------------------- the Map
RoomIndex(w, roomId) ==
  IF \E i \in 1..Len(w.rooms) : w.rooms[i].id = roomId
  THEN CHOOSE i \in 1..Len(w.rooms) : w.rooms[i].id = roomId
  ELSE 0

RoomsHas(w, roomId) == RoomIndex(w, roomId) # 0

\* rooms.get(roomId): the object id, or None for undefined.
RoomsGet(w, roomId) ==
  IF RoomsHas(w, roomId) THEN w.rooms[RoomIndex(w, roomId)].obj ELSE None

RoomsSet(w, roomId, o) ==
  [w EXCEPT !.rooms = Append(@, [id |-> roomId, obj |-> o])]

RoomsDelete(w, roomId) ==
  LET i == RoomIndex(w, roomId)
  IN IF i = 0 THEN w
     ELSE [w EXCEPT !.rooms = SubSeq(@, 1, i - 1) \o SubSeq(@, i + 1, Len(@))]

\* Objects still referenced: by the Map or by a live interval's closure.
LiveObjs(rs, tm) ==
  {rs[i].obj : i \in 1..Len(rs)} \cup ({tm[h] : h \in Handles} \ {None})

\* Handles still referenced: live, or stored in a referenced room.
UsedHandles(w) ==
  {h \in Handles : w.timers[h] # None} \cup
  {w.heap[o].interval : o \in LiveObjs(w.rooms, w.timers)}

FreeObjs(w) == ObjIds \ LiveObjs(w.rooms, w.timers)
FreeHandles(w) == Handles \ UsedHandles(w)

FirstIn(order, S) == order[CHOOSE i \in 1..Len(order) :
                       /\ order[i] \in S
                       /\ \A j \in 1..(i - 1) : order[j] \notin S]

\* --------------------------------------------------------------- emitting
\* io.to(roomId).emit / socket.emit / io.to(socketId).emit / socket.to().emit
ToRoom(roomId) == [kind |-> "room", id |-> roomId, except |-> None]
ToSocket(s) == [kind |-> "socket", id |-> s, except |-> None]
ToOthers(roomId, s) == [kind |-> "room", id |-> roomId, except |-> s]

Emit(w, ev, to, data) ==
  [w EXCEPT !.emitted = Append(@, [ev |-> ev, to |-> to, data |-> data])]

ReadyState(room) ==
  [p1 |-> (room.players[1] # None /\ room.players[1] \in room.readyPlayers),
   p2 |-> (room.players[2] # None /\ room.players[2] \in room.readyPlayers)]

\* ------------------------------------------------------------- GameRoom
\* constructor(roomId).  createdAt is read by the cleanup interval only;
\* the rooms older than the retention window are an input of that step.
NewRoom(roomId) ==
  [ roomId |-> roomId,
    players |-> <<None, None>>,
    host |-> None,
    gameActive |-> FALSE,
    scores |-> [p1 |-> 0, p2 |-> 0],
    currentCountry |-> Null,
    clueIndex |-> 0,
    timer |-> NaN,
    interval |-> None,
    readyPlayers |-> {},
    settings |-> Null,
    clueSchedule |-> <<>>,
    currentRound |-> 1 ]

\* addPlayer that fills slot 2 before slot 1.
addPlayerSlotTwoFirst(room, socketId) ==
  IF room.players[1] # None /\ room.players[2] # None
  THEN [room |-> room, num |-> None]
  ELSE LET n == IF room.players[2] = None THEN 2 ELSE 1
           r1 == [room EXCEPT !.players[n] = socketId]
           r2 == IF r1.host = None THEN [r1 EXCEPT !.host = socketId] ELSE r1
       IN [room |-> r2, num |-> n]

\* addPlayer(socketId): the room after the call and the returned number.
addPlayer(room, socketId) ==
  IF room.players[1] # None /\ room.players[2] # None
  THEN [room |-> room, num |-> None]
  ELSE LET n == IF room.players[1] = None THEN 1 ELSE 2
           r1 == [room EXCEPT !.players[n] = socketId]
           r2 == IF r1.host = None THEN [r1 EXCEPT !.host = socketId] ELSE r1
       IN [room |-> r2, num |-> n]

\* removePlayer on an array of occupants: removing the first moves the
\* second into its place.
removePlayerShift(room, socketId) ==
  LET n == IF room.players[1] = socketId THEN 1
           ELSE IF room.players[2] = socketId THEN 2 ELSE 0
  IN IF n = 0 THEN room
     ELSE LET r1 == [room EXCEPT !.players = IF n = 1 THEN <<@[2], None>>
                                             ELSE <<@[1], None>>,
                                 !.readyPlayers = @ \ {socketId}]
          IN IF r1.host = socketId
             THEN [r1 EXCEPT !.host = r1.players[1]]
             ELSE r1

\* removePlayer without the host migration.
removePlayerKeepHost(room, socketId) ==
  LET n == IF room.players[1] = socketId THEN 1
           ELSE IF room.players[2] = socketId THEN 2 ELSE 0
  IN IF n = 0 THEN room
     ELSE [room EXCEPT !.players[n] = None,
                       !.readyPlayers = @ \ {socketId}]

\* removePlayer that clears the host when the host leaves.
removePlayerClearHost(room, socketId) ==
  LET n == IF room.players[1] = socketId THEN 1
           ELSE IF room.players[2] = socketId THEN 2 ELSE 0
  IN IF n = 0 THEN room
     ELSE LET r1 == [room EXCEPT !.players[n] = None,
                                 !.readyPlayers = @ \ {socketId}]
          IN IF r1.host = socketId THEN [r1 EXCEPT !.host = None] ELSE r1

removePlayer(room, socketId) ==
  LET n == IF room.players[1] = socketId THEN 1
           ELSE IF room.players[2] = socketId THEN 2 ELSE 0
  IN IF n = 0 THEN room
     ELSE LET r1 == [room EXCEPT !.players[n] = None,
                                 !.readyPlayers = @ \ {socketId}]
              other == IF n = 1 THEN 2 ELSE 1
          IN IF r1.host = socketId
             THEN [r1 EXCEPT !.host = r1.players[other]]
             ELSE r1

getPlayerCount(room) ==
  (IF room.players[1] # None THEN 1 ELSE 0) +
  (IF room.players[2] # None THEN 1 ELSE 0)

setReady(room, socketId, isReady) ==
  IF isReady THEN [room EXCEPT !.readyPlayers = @ \cup {socketId}]
  ELSE [room EXCEPT !.readyPlayers = @ \ {socketId}]

areAllReady(room) ==
  /\ room.players[1] # None
  /\ room.players[2] # None
  /\ Cardinality(room.readyPlayers) = 2

\* setSettings that also takes the clue index back to 0.
setSettingsResetClue(room, settings) ==
  [room EXCEPT !.settings = settings,
               !.timer = settings.clueTime,
               !.clueIndex = 0,
               !.clueSchedule =
                  Slice0(SelectKeys(DEFAULT_CLUE_SCHEDULE, settings.enableClues),
                         settings.cluesPerRound)]

setSettings(room, settings) ==
  [room EXCEPT !.settings = settings,
               !.timer = settings.clueTime,
               !.clueSchedule =
                  Slice0(SelectKeys(DEFAULT_CLUE_SCHEDULE, settings.enableClues),
                         settings.cluesPerRound)]

\* getRandomCountry(): the set of entities Math.random may select.
getRandomCountry(room) ==
  LET all == COUNTRIES_AND_CITIES
      filtered ==
        IF room.settings # Null /\ room.settings.enabledContinents # {}
        THEN IF "All" \in room.settings.enabledContinents THEN all
             ELSE SelectRegion(all, room.settings.enabledContinents)
        ELSE all
      pool == IF filtered = <<>> THEN all ELSE filtered
  IN {pool[i] : i \in 1..Len(pool)}

\* ------------------------------------------------- stopGame, the interval
clearInterval(w, h) ==
  IF h = None THEN w ELSE [w EXCEPT !.timers[h] = None]

\* stopGame that either clears the interval or, when there is none, lowers
\* the active flag.
stopGameEitherOr(w, o) ==
  LET h == w.heap[o].interval
  IN IF h # None
     THEN [clearInterval(w, h) EXCEPT !.heap[o].interval = None]
     ELSE [w EXCEPT !.heap[o].gameActive = FALSE]

\* stopGame that clears the interval and keeps its handle in the room.
stopGameKeepHandle(w, o) ==
  clearInterval([w EXCEPT !.heap[o].gameActive = FALSE], w.heap[o].interval)

\* stopGame that forgets the handle without clearing the interval.
stopGameKeepInterval(w, o) ==
  [w EXCEPT !.heap[o].gameActive = FALSE, !.heap[o].interval = None]

\* stopGame() on the room object o.
stopGame(w, o) ==
  LET h == w.heap[o].interval
      w1 == [w EXCEPT !.heap[o].gameActive = FALSE]
  IN IF h # None
     THEN [clearInterval(w1, h) EXCEPT !.heap[o].interval = None]
     ELSE w1

\* startNewRound that leaves the ready set as it is.
startNewRoundKeepReady(w, o, country) ==
  LET w1 == [w EXCEPT !.heap[o].currentCountry = country,
                      !.heap[o].clueIndex = 0]
  IN IF w1.heap[o].settings = Null
     THEN [w1 EXCEPT !.thrown = TRUE]
     ELSE [w1 EXCEPT !.heap[o].timer = w1.heap[o].settings.clueTime,
                     !.heap[o].gameActive = TRUE]

\* startNewRound() on the room object o; country is the entity drawn by
\* getRandomCountry().  Reading settings.clueTime of null settings throws
\* after the target and the clue index were assigned.
startNewRound(w, o, country) ==
  LET w1 == [w EXCEPT !.heap[o].currentCountry = country,
                      !.heap[o].clueIndex = 0]
  IN IF w1.heap[o].settings = Null
     THEN [w1 EXCEPT !.thrown = TRUE]
     ELSE [w1 EXCEPT !.heap[o].timer = w1.heap[o].settings.clueTime,
                     !.heap[o].gameActive = TRUE,
                     !.heap[o].readyPlayers = {}]

\* function finishGame(room, winner, finalGame = false)
finishGame(w, o, winner, finalGame) ==
  LET w1 == stopGame(w, o)
      room == w1.heap[o]
  IN Emit(w1, "game_over", ToRoom(room.roomId),
          [winner |-> winner, correctCountry |-> room.currentCountry,
           scores |-> room.scores, finalGame |-> finalGame])

\* function startGameLoop(room), with the drawn entity and the handle that
\* setInterval returns.
startGameLoop(w, o, country, h) ==
  LET w1 == stopGame(w, o)
      w2 == startNewRound(w1, o, country)
      room == w2.heap[o]
      w3 == Emit(w2, "game_started", ToRoom(room.roomId),
                 [countryData |-> room.currentCountry,
                  clueIndex |-> room.clueIndex,
                  settings |-> room.settings])
  IN IF w2.thrown THEN w2
     ELSE [w3 EXCEPT !.timers[h] = o, !.heap[o].interval = h]

\* JavaScript truthiness of a number-or-undefined value.
Truthy(v) == IsNum(v) /\ v[1] # 0

\* v-- on a number-or-undefined value.
Decrement(v) == IF IsNum(v) THEN Num(v[1] - 1) ELSE NaN

\* v < 0, false for NaN.
LtZero(v) == IsNum(v) /\ v[1] < 0

\* v <= 0, false for NaN.
LeqZero(v) == IsNum(v) /\ v[1] <= 0

\* The interval callback with the round number incremented on every draw.
tickAlwaysIncrement(w, h) ==
  LET o == w.timers[h]
      room == w.heap[o]
      w1 == [w EXCEPT !.heap[o].timer = Decrement(@)]
      w2 == Emit(w1, "timer_update", ToRoom(room.roomId),
                 [timer |-> w1.heap[o].timer])
      w3 == [w2 EXCEPT !.heap[o].currentRound = @ + 1]
  IN IF ~room.gameActive THEN clearInterval(w, room.interval)
     ELSE IF ~LeqZero(w2.heap[o].timer) THEN w2
     ELSE IF room.clueIndex < Len(room.clueSchedule) - 1
     THEN Emit([w2 EXCEPT !.heap[o].clueIndex = @ + 1,
                          !.heap[o].timer = room.settings.clueTime],
               "next_clue", ToRoom(room.roomId),
               [clueIndex |-> room.clueIndex + 1])
     ELSE IF /\ Truthy(room.settings.maxRounds)
             /\ room.currentRound >= room.settings.maxRounds[1]
     THEN finishGame(w3, o, "draw", TRUE)
     ELSE finishGame(w3, o, "draw", FALSE)

\* The interval callback with the cap test room.currentRound > maxRounds.
tickStrictCap(w, h) ==
  LET o == w.timers[h]
      room == w.heap[o]
      w1 == [w EXCEPT !.heap[o].timer = Decrement(@)]
      w2 == Emit(w1, "timer_update", ToRoom(room.roomId),
                 [timer |-> w1.heap[o].timer])
  IN IF ~room.gameActive THEN clearInterval(w, room.interval)
     ELSE IF ~LeqZero(w2.heap[o].timer) THEN w2
     ELSE IF room.clueIndex < Len(room.clueSchedule) - 1
     THEN Emit([w2 EXCEPT !.heap[o].clueIndex = @ + 1,
                          !.heap[o].timer = room.settings.clueTime],
               "next_clue", ToRoom(room.roomId),
               [clueIndex |-> room.clueIndex + 1])
     ELSE IF /\ Truthy(room.settings.maxRounds)
             /\ room.currentRound > room.settings.maxRounds[1]
     THEN finishGame(w2, o, "draw", TRUE)
     ELSE finishGame([w2 EXCEPT !.heap[o].currentRound = @ + 1],
                     o, "draw", FALSE)

\* The interval callback of handle h, created by startGameLoop for the
\* room object the closure captured.
tick(w, h) ==
  LET o == w.timers[h]
      room == w.heap[o]
      w1 == [w EXCEPT !.heap[o].timer = Decrement(@)]
      w2 == Emit(w1, "timer_update", ToRoom(room.roomId),
                 [timer |-> w1.heap[o].timer])
  IN IF ~room.gameActive THEN clearInterval(w, room.interval)
     ELSE IF ~LeqZero(w2.heap[o].timer) THEN w2
     ELSE IF room.clueIndex < Len(room.clueSchedule) - 1
     THEN Emit([w2 EXCEPT !.heap[o].clueIndex = @ + 1,
                          !.heap[o].timer = room.settings.clueTime],
               "next_clue", ToRoom(room.roomId),
               [clueIndex |-> room.clueIndex + 1])
     ELSE IF /\ Truthy(room.settings.maxRounds)
             /\ room.currentRound >= room.settings.maxRounds[1]
     THEN finishGame(w2, o, "draw", TRUE)
     ELSE finishGame([w2 EXCEPT !.heap[o].currentRound = @ + 1],
                     o, "draw", FALSE)

\* ------------------------------------------------------------ handlers
Err(w, s, msg) == Emit(w, "error_message", ToSocket(s), [msg |-> msg])

EmitReadyState(w, roomId, o) ==
  Emit(w, "ready_state_update", ToRoom(roomId), ReadyState(w.heap[o]))

\* join_room that tests for more than MAX_PLAYERS occupants.
join_roomOverfull(w, s, roomId) ==
  LET fresh == FirstIn(ObjOrder, FreeObjs(w))
      w1 == IF RoomsHas(w, roomId) THEN w
            ELSE RoomsSet([w EXCEPT !.heap[fresh] = NewRoom(roomId)],
                          roomId, fresh)
      o == RoomsGet(w1, roomId)
      added == addPlayer(w1.heap[o], s)
      w2 == [w1 EXCEPT !.heap[o] = added.room,
                       !.members[roomId] = @ \cup {s}]
      w3 == Emit(w2, "player_assigned", ToSocket(s),
                 [num |-> added.num, settings |-> added.room.settings,
                  isHost |-> (added.room.host = s)])
      w4 == EmitReadyState(w3, roomId, o)
  IN IF roomId = FalsyRoomId THEN Err(w, s, "Room ID is required")
     ELSE IF getPlayerCount(w1.heap[o]) > MAX_PLAYERS
     THEN Err(w1, s, "Room is full!")
     ELSE IF getPlayerCount(w4.heap[o]) = MAX_PLAYERS
     THEN Emit(w4, "room_ready", ToRoom(roomId), [none |-> TRUE])
     ELSE w4

\* socket.on('join_room', (roomId) => ...); the empty string is a falsy id.
join_room(w, s, roomId) ==
  LET fresh == FirstIn(ObjOrder, FreeObjs(w))
      w1 == IF RoomsHas(w, roomId) THEN w
            ELSE RoomsSet([w EXCEPT !.heap[fresh] = NewRoom(roomId)],
                          roomId, fresh)
      o == RoomsGet(w1, roomId)
      added == addPlayer(w1.heap[o], s)
      w2 == [w1 EXCEPT !.heap[o] = added.room,
                       !.members[roomId] = @ \cup {s}]
      w3 == Emit(w2, "player_assigned", ToSocket(s),
                 [num |-> added.num, settings |-> added.room.settings,
                  isHost |-> (added.room.host = s)])
      w4 == EmitReadyState(w3, roomId, o)
  IN IF roomId = FalsyRoomId THEN Err(w, s, "Room ID is required")
     ELSE IF getPlayerCount(w1.heap[o]) >= MAX_PLAYERS
     THEN Err(w1, s, "Room is full!")
     ELSE IF getPlayerCount(w4.heap[o]) = MAX_PLAYERS
     THEN Emit(w4, "room_ready", ToRoom(roomId), [none |-> TRUE])
     ELSE w4

\* Object.values(settings.enableClues).filter(Boolean).length
enabledClueCount(settings) == Cardinality(settings.enableClues)

\* socket.on('submit_settings', ({ roomId, settings }) => ...)
submit_settings(w, s, roomId, settings) ==
  LET o == RoomsGet(w, roomId)
      w1 == [w EXCEPT !.heap[o] = setSettings(@, settings)]
  IN IF o = None THEN w
     ELSE IF w.heap[o].host # s
     THEN Err(w, s, "Only the host can set game settings")
     ELSE IF settings = Null
     THEN Err(w, s, "Invalid settings")
     ELSE IF enabledClueCount(settings) < 1
     THEN Err(w, s, "Please select at least 1 clue")
     ELSE IF settings.enabledContinents = {}
     THEN Err(w, s, "Please select at least one continent")
     ELSE Emit(w1, "settings_updated", ToRoom(roomId),
               [settings |-> w1.heap[o].settings])

\* toggle_ready without the test for the host's settings.
toggle_readyUnchecked(w, s, roomId, isReady, country, h) ==
  LET o == RoomsGet(w, roomId)
      w1 == [w EXCEPT !.heap[o] = setReady(@, s, isReady)]
      w2 == EmitReadyState(w1, roomId, o)
  IN IF o = None THEN w
     ELSE IF areAllReady(w2.heap[o]) THEN startGameLoop(w2, o, country, h)
     ELSE w2

\* socket.on('toggle_ready', ({ roomId, isReady }) => ...)
toggle_ready(w, s, roomId, isReady, country, h) ==
  LET o == RoomsGet(w, roomId)
      w1 == [w EXCEPT !.heap[o] = setReady(@, s, isReady)]
      w2 == EmitReadyState(w1, roomId, o)
  IN IF o = None THEN w
     ELSE IF w.heap[o].host = s /\ w.heap[o].settings = Null
     THEN Err(w, s, "Please set game settings first")
     ELSE IF areAllReady(w2.heap[o]) THEN startGameLoop(w2, o, country, h)
     ELSE w2

\* restart_game without the host test.
restart_gameAnyone(w, s, roomId, country, h) ==
  LET o == RoomsGet(w, roomId)
  IN IF o = None THEN w
     ELSE startGameLoop(w, o, country, h)

\* socket.on('restart_game', (roomId) => ...)
restart_game(w, s, roomId, country, h) ==
  LET o == RoomsGet(w, roomId)
  IN IF o = None THEN w
     ELSE IF w.heap[o].host # s
     THEN Err(w, s, "Only the Host can restart.")
     ELSE startGameLoop(w, o, country, h)

\* String.prototype.toLowerCase on one character of the alphabet.
toLowerCase(c) ==
  CASE c = "P" -> "p"
    [] c = "C" -> "c"
    [] c = "E" -> "e"
    [] c = "É" -> "é"
    [] OTHER -> c

\* The characters the class [a-z0-9] matches, within the alphabet.
AlphaNum == {"a", "c", "d", "e", "h", "p", "r", "u", "1"}

\* normalize with replace(/[^a-z0-9]/, ''), which deletes the first
\* character outside the class only.
normalizeFirstOnly(str) ==
  LET lower == [i \in 1..Len(str) |-> toLowerCase(str[i])]
      bad == {i \in 1..Len(str) : lower[i] \notin AlphaNum}
      k == CHOOSE i \in bad : \A j \in bad : i <= j
  IN IF bad = {} THEN lower
     ELSE SubSeq(lower, 1, k - 1) \o SubSeq(lower, k + 1, Len(lower))

RECURSIVE normalize(_)
\* const normalize = (str) => str.toLowerCase().replace(/[^a-z0-9]/g, '')
normalize(str) ==
  IF str = <<>> THEN <<>>
  ELSE LET c == toLowerCase(Head(str))
       IN IF c \in AlphaNum THEN <<c>> \o normalize(Tail(str))
          ELSE normalize(Tail(str))

\* send_guess that awards the point of a match and lets the round run on.
send_guessKeepRunning(w, s, roomId, guess, playerNum) ==
  LET o == RoomsGet(w, roomId)
      room == w.heap[o]
      winner == IF playerNum = 1 THEN "player1" ELSE "player2"
      w1 == IF winner = "player1"
            THEN [w EXCEPT !.heap[o].scores.p1 = @ + 1]
            ELSE [w EXCEPT !.heap[o].scores.p2 = @ + 1]
  IN IF o = None THEN w
     ELSE IF ~room.gameActive THEN w
     ELSE IF normalize(guess) = normalize(room.currentCountry.country)
     THEN Emit(w1, "game_over", ToRoom(room.roomId),
               [winner |-> winner, correctCountry |-> room.currentCountry,
                scores |-> w1.heap[o].scores, finalGame |-> FALSE])
     ELSE Emit(w, "opponent_guess", ToOthers(roomId, s), [guess |-> guess])

\* send_guess that tests for a target instead of the active flag.
send_guessAnyTime(w, s, roomId, guess, playerNum) ==
  LET o == RoomsGet(w, roomId)
      room == w.heap[o]
      winner == IF playerNum = 1 THEN "player1" ELSE "player2"
      w1 == IF winner = "player1"
            THEN [w EXCEPT !.heap[o].scores.p1 = @ + 1]
            ELSE [w EXCEPT !.heap[o].scores.p2 = @ + 1]
  IN IF o = None THEN w
     ELSE IF room.currentCountry = Null THEN w
     ELSE IF normalize(guess) = normalize(room.currentCountry.country)
     THEN finishGame(w1, o, winner, FALSE)
     ELSE Emit(w, "opponent_guess", ToOthers(roomId, s), [guess |-> guess])

\* send_guess that takes every slot number but 2 for player 1.
send_guessSwapped(w, s, roomId, guess, playerNum) ==
  LET o == RoomsGet(w, roomId)
      room == w.heap[o]
      winner == IF playerNum = 2 THEN "player2" ELSE "player1"
      w1 == IF winner = "player1"
            THEN [w EXCEPT !.heap[o].scores.p1 = @ + 1]
            ELSE [w EXCEPT !.heap[o].scores.p2 = @ + 1]
  IN IF o = None THEN w
     ELSE IF ~room.gameActive THEN w
     ELSE IF normalize(guess) = normalize(room.currentCountry.country)
     THEN finishGame(w1, o, winner, FALSE)
     ELSE Emit(w, "opponent_guess", ToOthers(roomId, s), [guess |-> guess])

\* send_guess that forwards the text on a room that is not active.
send_guessForwardIdle(w, s, roomId, guess, playerNum) ==
  LET o == RoomsGet(w, roomId)
      room == w.heap[o]
      winner == IF playerNum = 1 THEN "player1" ELSE "player2"
      w1 == IF winner = "player1"
            THEN [w EXCEPT !.heap[o].scores.p1 = @ + 1]
            ELSE [w EXCEPT !.heap[o].scores.p2 = @ + 1]
  IN IF o = None THEN w
     ELSE IF ~room.gameActive
     THEN Emit(w, "opponent_guess", ToOthers(roomId, s), [guess |-> guess])
     ELSE IF normalize(guess) = normalize(room.currentCountry.country)
     THEN finishGame(w1, o, winner, FALSE)
     ELSE Emit(w, "opponent_guess", ToOthers(roomId, s), [guess |-> guess])

\* send_guess that sends the text of a miss to the whole room.
send_guessEcho(w, s, roomId, guess, playerNum) ==
  LET o == RoomsGet(w, roomId)
      room == w.heap[o]
      winner == IF playerNum = 1 THEN "player1" ELSE "player2"
      w1 == IF winner = "player1"
            THEN [w EXCEPT !.heap[o].scores.p1 = @ + 1]
            ELSE [w EXCEPT !.heap[o].scores.p2 = @ + 1]
  IN IF o = None THEN w
     ELSE IF ~room.gameActive THEN w
     ELSE IF normalize(guess) = normalize(room.currentCountry.country)
     THEN finishGame(w1, o, winner, FALSE)
     ELSE Emit(w, "opponent_guess", ToRoom(roomId), [guess |-> guess])

\* socket.on('send_guess', ({ roomId, guess, playerNum }) => ...)
send_guess(w, s, roomId, guess, playerNum) ==
  LET o == RoomsGet(w, roomId)
      room == w.heap[o]
      target == normalize(room.currentCountry.country)
      attempt == normalize(guess)
      winner == IF playerNum = 1 THEN "player1" ELSE "player2"
      w1 == IF winner = "player1"
            THEN [w EXCEPT !.heap[o].scores.p1 = @ + 1]
            ELSE [w EXCEPT !.heap[o].scores.p2 = @ + 1]
  IN IF o = None THEN w
     ELSE IF ~room.gameActive THEN w
     ELSE IF attempt = target THEN finishGame(w1, o, winner, FALSE)
     ELSE Emit(w, "opponent_guess", ToOthers(roomId, s), [guess |-> guess])

\* The disconnect loop body that stops the empty room and leaves it in the
\* Map, for the cleanup interval to delete.
disconnectFromKeepEmpty(w, s, entry) ==
  LET o == entry.obj
      roomId == entry.id
      w1 == [w EXCEPT !.heap[o] = removePlayer(@, s)]
      w2 == Emit(w1, "player_left", ToRoom(roomId), [none |-> TRUE])
      room == w2.heap[o]
      remaining == IF room.players[1] # None THEN room.players[1]
                   ELSE room.players[2]
      w3 == IF remaining # None /\ room.host = remaining
            THEN Emit(w2, "host_migration", ToSocket(remaining),
                      [value |-> TRUE])
            ELSE w2
      w4 == EmitReadyState(w3, roomId, o)
  IN IF w.heap[o].players[1] = s \/ w.heap[o].players[2] = s
     THEN IF getPlayerCount(w4.heap[o]) = 0
          THEN stopGame(w4, o)
          ELSE w4
     ELSE w

\* The disconnect loop body that deletes the empty room without stopGame().
disconnectFromNoStop(w, s, entry) ==
  LET o == entry.obj
      roomId == entry.id
      w1 == [w EXCEPT !.heap[o] = removePlayer(@, s)]
      w2 == Emit(w1, "player_left", ToRoom(roomId), [none |-> TRUE])
      room == w2.heap[o]
      remaining == IF room.players[1] # None THEN room.players[1]
                   ELSE room.players[2]
      w3 == IF remaining # None /\ room.host = remaining
            THEN Emit(w2, "host_migration", ToSocket(remaining),
                      [value |-> TRUE])
            ELSE w2
      w4 == EmitReadyState(w3, roomId, o)
  IN IF w.heap[o].players[1] = s \/ w.heap[o].players[2] = s
     THEN IF getPlayerCount(w4.heap[o]) = 0
          THEN RoomsDelete(w4, roomId)
          ELSE w4
     ELSE w

\* One iteration of the disconnect handler's loop, for one Map entry.
disconnectFrom(w, s, entry) ==
  LET o == entry.obj
      roomId == entry.id
      w1 == [w EXCEPT !.heap[o] = removePlayer(@, s)]
      w2 == Emit(w1, "player_left", ToRoom(roomId), [none |-> TRUE])
      room == w2.heap[o]
      remaining == IF room.players[1] # None THEN room.players[1]
                   ELSE room.players[2]
      w3 == IF remaining # None /\ room.host = remaining
            THEN Emit(w2, "host_migration", ToSocket(remaining),
                      [value |-> TRUE])
            ELSE w2
      w4 == EmitReadyState(w3, roomId, o)
  IN IF w.heap[o].players[1] = s \/ w.heap[o].players[2] = s
     THEN IF getPlayerCount(w4.heap[o]) = 0
          THEN RoomsDelete(stopGame(w4, o), roomId)
          ELSE w4
     ELSE w

RECURSIVE disconnectLoop(_, _, _)
disconnectLoop(w, s, entries) ==
  IF entries = <<>> THEN w
  ELSE disconnectLoop(disconnectFrom(w, s, Head(entries)), s, Tail(entries))

\* socket.on('disconnect', () => ...): the socket has left its groups
\* before the handler runs.
disconnect(w, s) ==
  disconnectLoop([w EXCEPT !.members = [r \in RoomIds |-> @[r] \ {s}]],
                 s, w.rooms)

\* The cleanup loop body that deletes by age alone.
sweepEntryByAge(w, old, entry) ==
  IF entry.id \in old
  THEN RoomsDelete(stopGame(w, entry.obj), entry.id)
  ELSE w

\* One iteration of the cleanup interval's loop; old is the set of room ids
\* with now - room.createdAt > 30 * 60 * 1000.
sweepEntry(w, old, entry) ==
  LET room == w.heap[entry.obj]
  IN IF getPlayerCount(room) = 0 /\ entry.id \in old
     THEN RoomsDelete(stopGame(w, entry.obj), entry.id)
     ELSE w

RECURSIVE sweepLoop(_, _, _)
sweepLoop(w, old, entries) ==
  IF entries = <<>> THEN w
  ELSE sweepLoop(sweepEntry(w, old, Head(entries)), old, Tail(entries))

\* The cleanup interval's callback.
sweep(w, old) == sweepLoop(w, old, w.rooms)

\* ------------------------------------------------------------- inputs
Settings(clueTime, cluesPerRound, enableClues, enabledContinents, maxRounds) ==
  [clueTime |-> clueTime, cluesPerRound |-> cluesPerRound,
   enableClues |-> enableClues, enabledContinents |-> enabledContinents,
   maxRounds |-> maxRounds]

\* The settings payloads clients send in this model.  Accepted by the
\* handler: a three-clue selection cut to two clues, with a round cap, a
\* one-clue selection without a cap, and a selection with a clue count of
\* zero.  Rejected: no clue enabled, no continent enabled, no settings at
\* all.
SettingsInputs ==
  {Settings(Num(MaxClueTime), Num(2), {"flag", "region", "currency"},
            {"All"}, Num(MaxRound)),
   Settings(Num(1), Num(1), {"region"}, {"Africa"}, NaN),
   Settings(Num(1), Num(0), {"region"}, {"Africa"}, NaN),
   Settings(Num(1), Num(1), {}, {"All"}, NaN),
   Settings(Num(1), Num(1), {"region"}, {}, NaN),
   Null}

GuessInputs == {<<"P", "e", "r", "u", "!">>, <<"p", "é", "r", "u">>}

PlayerNumInputs == {1, 2, 3}

\* ------------------------------------------------------------ transitions
FreeCell == NewRoom(None)

\* The counters the code lets grow without limit stay within the bounds:
\* the points awarded in a room and its round number.
WithinBounds(w) ==
  \A o \in ObjIds :
    /\ w.heap[o].scores.p1 + w.heap[o].scores.p2 <= MaxScore
    /\ w.heap[o].currentRound <= MaxRound

\* The rounds the handler with result w started on the room object o: the
\* game_started events startGameLoop emitted to the room.
RoundsStartedIn(w, o) ==
  Cardinality({i \in 1..Len(w.emitted) :
                 /\ w.emitted[i].ev = "game_started"
                 /\ w.emitted[i].to.id = w.heap[o].roomId})

\* The count of round starts after the handler with result w; the count of
\* a room object ends with the object.
CountStarts(w) ==
  [o \in ObjIds |->
     IF starts[o] < 0 THEN starts[o]
     ELSE IF o \notin LiveObjs(w.rooms, w.timers) THEN 0
     ELSE starts[o] + RoundsStartedIn(w, o)]

\* The handler's result becomes the next state; cells of room objects that
\* nothing references any more are reclaimed.  The emitted events leave the
\* process and are no part of its state.
Commit(w) ==
  /\ WithinBounds(w)
  /\ \A o \in ObjIds : CountStarts(w)[o] <= MaxStarts
  /\ rooms' = w.rooms
  /\ timers' = w.timers
  /\ heap' = [o \in ObjIds |->
                IF o \in LiveObjs(w.rooms, w.timers) THEN w.heap[o]
                ELSE FreeCell]
  /\ members' = w.members
  /\ thrown' = w.thrown
  /\ strs' = strs
  /\ starts' = CountStarts(w)

\* A handler of socket s can run: the process is up and s is connected.
CanHandle(s) == ~thrown /\ s \in connected

\* The handle setInterval returns in startGameLoop on the room of roomId.
NextHandle(roomId) ==
  LET o == RoomsGet(World, roomId)
      free == IF o = None THEN FreeHandles(World)
              ELSE FreeHandles(stopGame(World, o))
  IN IF free = {} THEN None ELSE FirstIn(HandleOrder, free)

\* The entities getRandomCountry() may return for the room of roomId.
Draws(roomId) ==
  LET o == RoomsGet(World, roomId)
  IN IF o = None THEN {Null} ELSE getRandomCountry(heap[o])

JoinRoom(s, roomId) ==
  /\ CanHandle(s)
  /\ RoomsHas(World, roomId) \/ roomId = FalsyRoomId \/ FreeObjs(World) # {}
  /\ Commit(join_room(World, s, roomId))
  /\ UNCHANGED connected

SubmitSettings(s, roomId, settings) ==
  /\ CanHandle(s)
  /\ Commit(submit_settings(World, s, roomId, settings))
  /\ UNCHANGED connected

ToggleReady(s, roomId, isReady) ==
  /\ CanHandle(s)
  /\ NextHandle(roomId) # None
  /\ \E country \in Draws(roomId) :
       Commit(toggle_ready(World, s, roomId, isReady, country,
                           NextHandle(roomId)))
  /\ UNCHANGED connected

RestartGame(s, roomId) ==
  /\ CanHandle(s)
  /\ NextHandle(roomId) # None
  /\ \E country \in Draws(roomId) :
       Commit(restart_game(World, s, roomId, country, NextHandle(roomId)))
  /\ UNCHANGED connected

SendGuess(s, roomId, guess, playerNum) ==
  /\ CanHandle(s)
  /\ Commit(send_guess(World, s, roomId, guess, playerNum))
  /\ UNCHANGED connected

Disconnect(s) ==
  /\ CanHandle(s)
  /\ connected' = connected \ {s}
  /\ Commit(disconnect(World, s))

\* A live interval fires.
Tick(h) ==
  /\ ~thrown
  /\ timers[h] # None
  /\ Commit(tick(World, h))
  /\ UNCHANGED connected

\* The cleanup interval fires, at a time when the rooms of old have
\* outlived the retention window.
Sweep(old) ==
  /\ ~thrown
  /\ Commit(sweep(World, old))
  /\ UNCHANGED connected

Init ==
  /\ rooms = <<>>
  /\ heap = [o \in ObjIds |-> FreeCell]
  /\ timers = [h \in Handles |-> None]
  /\ members = [r \in RoomIds |-> {}]
  /\ connected = MainConns
  /\ thrown = FALSE
  /\ strs = <<>>
  /\ starts = [o \in ObjIds |-> -1]

Next ==
  \/ \E s \in MainConns, roomId \in MainRooms \cup {FalsyRoomId} :
       JoinRoom(s, roomId)
  \/ \E s \in MainConns, roomId \in MainRooms, settings \in SettingsInputs :
       SubmitSettings(s, roomId, settings)
  \/ \E s \in MainConns, roomId \in MainRooms, isReady \in BOOLEAN :
       ToggleReady(s, roomId, isReady)
  \/ \E s \in MainConns, roomId \in MainRooms : RestartGame(s, roomId)
  \/ \E s \in MainConns, roomId \in MainRooms, guess \in GuessInputs,
        playerNum \in PlayerNumInputs : SendGuess(s, roomId, guess, playerNum)
  \/ \E s \in MainConns : Disconnect(s)
  \/ \E h \in Handles : Tick(h)
  \/ \E old \in SUBSET MainRooms : Sweep(old)

\* Two sockets on one room id, every handler and the timers.
Spec == Init /\ [][Next]_vars

InitLobby ==
  /\ rooms = <<>>
  /\ heap = [o \in ObjIds |-> FreeCell]
  /\ timers = [h \in Handles |-> None]
  /\ members = [r \in RoomIds |-> {}]
  /\ connected = Conns
  /\ thrown = FALSE
  /\ strs = <<>>
  /\ starts = [o \in ObjIds |-> -1]

NextLobby ==
  \/ \E s \in Conns, roomId \in RoomIds : JoinRoom(s, roomId)
  \/ \E s \in Conns, roomId \in RoomIds, isReady \in BOOLEAN :
       ToggleReady(s, roomId, isReady)
  \/ \E s \in Conns : Disconnect(s)

\* Three sockets on two room ids, the membership handlers only: no
\* settings are submitted, no interval fires and no guess is sent.
SpecLobby == InitLobby /\ [][NextLobby]_vars

\* ---------------------------------------------------------- vocabulary
\* The room objects the Map holds.
Registered == {rooms[i].obj : i \in 1..Len(rooms)}

\* The socket ids held in the slots of a room.
Occupants(room) == {room.players[1], room.players[2]} \ {None}

\* The slots of registered rooms that hold socket s.
SlotsOf(s) ==
  {<<o, n>> \in Registered \X {1, 2} : heap[o].players[n] = s}

\* The positions of event ev in a list of emitted events.
Positions(em, ev) == {i \in 1..Len(em) : em[i].ev = ev}

\* The results of the toggle_ready calls the connected sockets can make in
\* the current state on a registered room, with the call's arguments.
ToggleReadyCalls ==
  {[s |-> c[1], o |-> RoomsGet(World, c[2]), isReady |-> c[3],
    w |-> toggle_ready(World, c[1], c[2], c[3], c[4], NextHandle(c[2]))] :
     c \in {d \in connected \X RoomIds \X BOOLEAN \X
                  {COUNTRIES_AND_CITIES[i] :
                     i \in 1..Len(COUNTRIES_AND_CITIES)} :
              /\ RoomsHas(World, d[2])
              /\ NextHandle(d[2]) # None
              /\ d[4] \in Draws(d[2])}}

\* The results of the send_guess calls the connected sockets can make in
\* the current state, with the call's arguments.
SendGuessCalls ==
  {[s |-> c[1], roomId |-> c[2], guess |-> c[3], playerNum |-> c[4],
    w |-> send_guess(World, c[1], c[2], c[3], c[4])] :
     c \in connected \X RoomIds \X GuessInputs \X PlayerNumInputs}

\* The results of every handler call and callback that can run in the
\* current state.
Results ==
  {join_room(World, c[1], c[2]) :
     c \in {d \in connected \X RoomIds :
              RoomsHas(World, d[2]) \/ FreeObjs(World) # {}}}
  \cup {submit_settings(World, c[1], c[2], c[3]) :
     c \in connected \X RoomIds \X SettingsInputs}
  \cup {c.w : c \in ToggleReadyCalls}
  \cup {restart_game(World, c[1], c[2], c[3], NextHandle(c[2])) :
     c \in {d \in connected \X RoomIds \X
                  {COUNTRIES_AND_CITIES[i] :
                     i \in 1..Len(COUNTRIES_AND_CITIES)} :
              /\ RoomsHas(World, d[2])
              /\ NextHandle(d[2]) # None
              /\ d[3] \in Draws(d[2])}}
  \cup {c.w : c \in SendGuessCalls}
  \cup {disconnect(World, s) : s \in connected}
  \cup {tick(World, h) : h \in {x \in Handles : timers[x] # None}}
  \cup {sweep(World, old) : old \in SUBSET RoomIds}

\* --------------------------------------------------------------- claims
\* C1: no socket id occupies more than one slot, neither both slots of one
\* room nor slots of two rooms, and no room has more than 2 occupied slots.
C1_OneSlotPerConnection ==
  /\ \A s \in Conns : Cardinality(SlotsOf(s)) <= 1
  /\ \A o \in Registered : getPlayerCount(heap[o]) <= MAX_PLAYERS

\* C2: the ready set of every room is a subset of the socket ids that
\* occupy its slots.
C2_ReadySubsetOfOccupants ==
  \A o \in Registered : heap[o].readyPlayers \subseteq Occupants(heap[o])

\* C3: the host of every room is null or the socket id held in one of the
\* room's occupied slots.
C3_HostIsOccupant ==
  \A o \in Registered :
    heap[o].host = None \/ heap[o].host \in Occupants(heap[o])

\* C3 witness: the occupant of slot 1, the first joiner and host, has left
\* a two-player room and the occupant of slot 2 is host.
C3_Witness ==
  \E o \in Registered :
    /\ heap[o].players[1] = None
    /\ heap[o].players[2] # None
    /\ heap[o].players[2] \in connected
    /\ heap[o].host = heap[o].players[2]

\* C4: a step in which an occupant of an active room disconnects leaves the
\* room, if it stays registered with the other occupant present, inactive
\* and without an interval.
C4_DisconnectStopsRound ==
  [][\A s \in connected \ connected' :
       \A o \in Registered :
         (/\ s \in Occupants(heap[o])
          /\ heap[o].gameActive
          /\ o \in Registered'
          /\ Occupants(heap'[o]) \subseteq connected') =>
           /\ ~heap'[o].gameActive
           /\ heap'[o].interval = None
           /\ \A h \in Handles : timers'[h] # o]_vars

\* C5: every live interval is the current interval of a registered, active
\* room: no interval survives the stop of its round, so no callback of an
\* earlier round can fire in a later one, and a room has at most one live
\* interval.
C5_NoTickAfterStop ==
  \A h \in Handles :
    timers[h] # None =>
      /\ timers[h] \in Registered
      /\ heap[timers[h]].interval = h
      /\ heap[timers[h]].gameActive

\* C5 witness: a round is running on a live interval after an earlier round
\* of the same room was stopped by a winning guess.
C5_Witness ==
  \E h \in Handles :
    /\ timers[h] # None
    /\ heap[timers[h]].gameActive
    /\ heap[timers[h]].interval = h
    /\ heap[timers[h]].scores.p1 + heap[timers[h]].scores.p2 >= 1

\* What C6 asks of the result w of one handler call or callback.
OneGameOver(w) ==
  /\ Cardinality(Positions(w.emitted, "game_over")) <= 1
  /\ \A i \in Positions(w.emitted, "game_over") :
       \E o \in Registered :
         /\ heap[o].roomId = w.emitted[i].to.id
         /\ heap[o].gameActive
         /\ ~w.heap[o].gameActive
  /\ \A o \in Registered :
       ~heap[o].gameActive =>
         /\ w.heap[o].scores = heap[o].scores
         /\ w.heap[o].currentRound = heap[o].currentRound

\* C6: every handler call and callback emits at most one game_over, and only
\* for a room that was active before it and is inactive after it; on a room
\* that is not active it changes neither the scores nor the round number.
\* So the second of a correct guess and a clue exhaustion does nothing.
C6_OneGameOverPerRound == \A w \in Results : OneGameOver(w)

\* C6 witness: a correct guess and the clue exhaustion of the same round
\* are both pending: each of them, run first, ends the round.
C6_Witness ==
  \E h \in Handles, c \in SendGuessCalls :
    /\ timers[h] # None
    /\ heap[timers[h]].roomId = c.roomId
    /\ Positions(tick(World, h).emitted, "game_over") # {}
    /\ Positions(c.w.emitted, "game_over") # {}

\* A guess that matches the target of the active round of room roomId.
Matches(roomId, guess) ==
  LET o == RoomsGet(World, roomId)
  IN /\ o # None
     /\ heap[o].gameActive
     /\ normalize(guess) = normalize(heap[o].currentCountry.country)

\* The effect of a winning guess on the room object o in the result w, for
\* the player named key ("p1" or "p2") and reported as winner.
WinEffect(w, o, key, winner) ==
  /\ w.heap[o].scores[key] = heap[o].scores[key] + 1
  /\ \A k \in {"p1", "p2"} \ {key} : w.heap[o].scores[k] = heap[o].scores[k]
  /\ ~w.heap[o].gameActive
  /\ w.heap[o].interval = None
  /\ \A h \in Handles : w.timers[h] # o
  /\ Len(w.emitted) = 1
  /\ w.emitted[1].ev = "game_over"
  /\ w.emitted[1].data.winner = winner
  /\ w.emitted[1].data.scores = w.heap[o].scores

\* C7 as claimed: on a matching guess of a socket that occupies one slot of
\* the room, the score of that slot is the one incremented and reported,
\* whatever slot number the message carries.
C7_WinnerIsSubmittersSlot ==
  \A c \in SendGuessCalls :
    (Matches(c.roomId, c.guess) /\ Cardinality(SlotsOf(c.s)) = 1) =>
      LET o == RoomsGet(World, c.roomId)
      IN IF heap[o].players[1] = c.s THEN WinEffect(c.w, o, "p1", "player1")
         ELSE IF heap[o].players[2] = c.s
         THEN WinEffect(c.w, o, "p2", "player2")
         ELSE TRUE

\* C7 amended: on a matching guess in an active round exactly one score is
\* incremented by one, p1's when the message carries slot number 1 and p2's
\* otherwise, that player is the winner reported in game_over, and the round
\* is stopped before the handler returns.
C7_WinnerIsMessageSlot ==
  \A c \in SendGuessCalls :
    Matches(c.roomId, c.guess) =>
      IF c.playerNum = 1
      THEN WinEffect(c.w, RoomsGet(World, c.roomId), "p1", "player1")
      ELSE WinEffect(c.w, RoomsGet(World, c.roomId), "p2", "player2")

\* C7 witness: the occupant of slot 1 can send a matching guess that
\* carries slot number 2.
C7_Witness ==
  \E c \in SendGuessCalls :
    /\ Matches(c.roomId, c.guess)
    /\ heap[RoomsGet(World, c.roomId)].players[1] = c.s
    /\ c.playerNum = 2
    /\ WithinBounds(c.w)

\* C8: no handler throws, and no room without settings has a target
\* assigned or is active.
C8_NoStartWithoutConfig ==
  /\ ~thrown
  /\ \A o \in Registered :
       heap[o].settings = Null =>
         heap[o].currentCountry = Null /\ ~heap[o].gameActive

\* C9: a toggle_ready that is not rejected starts a round exactly when,
\* after the ready-set update, both slots are occupied and both occupants
\* are in the ready set.
C9_StartIffBothReady ==
  \A c \in ToggleReadyCalls :
    Positions(c.w.emitted, "error_message") = {} =>
      LET room == setReady(heap[c.o], c.s, c.isReady)
          started == /\ Positions(c.w.emitted, "game_started") # {}
                     /\ c.w.heap[c.o].gameActive
      IN started <=> (/\ room.players[1] # None
                      /\ room.players[2] # None
                      /\ Occupants(room) \subseteq room.readyPlayers)

\* C10: the settings of every room, once accepted, yield a non-empty clue
\* schedule and name at least one continent or "All".
C10_AcceptedConfigIsValid ==
  \A o \in Registered :
    heap[o].settings # Null =>
      /\ Len(heap[o].clueSchedule) >= 1
      /\ heap[o].settings.enabledContinents # {}

\* ------------------------------------------------- calls and their results
\* The results of the join_room calls the connected sockets can make in the
\* current state, with the call's arguments.
JoinRoomCalls ==
  {[s |-> c[1], roomId |-> c[2], w |-> join_room(World, c[1], c[2])] :
     c \in {d \in connected \X RoomIds :
              RoomsHas(World, d[2]) \/ FreeObjs(World) # {}}}

\* The results of the submit_settings calls the connected sockets can make
\* in the current state on a registered room, with the call's arguments.
SubmitSettingsCalls ==
  {[s |-> c[1], o |-> RoomsGet(World, c[2]), settings |-> c[3],
    w |-> submit_settings(World, c[1], c[2], c[3])] :
     c \in {d \in connected \X RoomIds \X SettingsInputs :
              RoomsHas(World, d[2])}}

\* The results of the restart_game calls the connected sockets can make in
\* the current state on a registered room, with the call's arguments.
RestartGameCalls ==
  {[s |-> c[1], o |-> RoomsGet(World, c[2]),
    w |-> restart_game(World, c[1], c[2], c[3], NextHandle(c[2]))] :
     c \in {d \in connected \X RoomIds \X
                  {COUNTRIES_AND_CITIES[i] :
                     i \in 1..Len(COUNTRIES_AND_CITIES)} :
              /\ RoomsHas(World, d[2])
              /\ NextHandle(d[2]) # None
              /\ d[3] \in Draws(d[2])}}

\* The results of the interval callbacks that can fire in the current
\* state, with the handle and the room object the closure captured.
TickCalls ==
  {[h |-> h, o |-> timers[h], w |-> tick(World, h)] :
     h \in {x \in Handles : timers[x] # None}}

\* The result w leaves the rooms, the timers and the groups as they are.
Unchanged(w) ==
  /\ w.rooms = rooms
  /\ w.heap = heap
  /\ w.timers = timers
  /\ w.members = members
  /\ ~w.thrown

\* The result w emits one event only, an error_message to socket s.
OnlyErrorTo(w, s, msg) ==
  /\ Len(w.emitted) = 1
  /\ w.emitted[1].ev = "error_message"
  /\ w.emitted[1].to = ToSocket(s)
  /\ w.emitted[1].data.msg = msg

\* C11: every active room with a non-empty clue schedule has a target and
\* a clue index within [0, len(clueSchedule) - 1].  (Rooms with an empty
\* schedule are left out here: they are the subject of C10.)
C11_ActiveHasTargetAndClue ==
  \A o \in Registered :
    (heap[o].gameActive /\ heap[o].clueSchedule # <<>>) =>
      /\ heap[o].currentCountry # Null
      /\ heap[o].clueIndex \in 0..(Len(heap[o].clueSchedule) - 1)

\* C12: join_room on a room with an empty slot (a room the call creates
\* included) puts the joiner in slot 1 if it is empty and else in slot 2,
\* makes the joiner host exactly when no host was set, and emits one
\* player_assigned, to the joiner, with that slot number and with isHost
\* equal to (host = joiner).
C12_JoinAssignsLowestSlot ==
  \A c \in JoinRoomCalls :
    LET before == IF RoomsHas(World, c.roomId)
                  THEN heap[RoomsGet(World, c.roomId)]
                  ELSE NewRoom(c.roomId)
        after == c.w.heap[RoomsGet(c.w, c.roomId)]
        n == IF before.players[1] = None THEN 1 ELSE 2
    IN getPlayerCount(before) < MAX_PLAYERS =>
         /\ after.players = [before.players EXCEPT ![n] = c.s]
         /\ after.host = (IF before.host = None THEN c.s ELSE before.host)
         /\ Positions(c.w.emitted, "player_assigned") = {1}
         /\ Positions(c.w.emitted, "error_message") = {}
         /\ c.w.emitted[1].to = ToSocket(c.s)
         /\ c.w.emitted[1].data.num = n
         /\ c.w.emitted[1].data.isHost = (after.host = c.s)

\* C12 witness: slot 1 of a room was vacated, slot 2 holds the host, and a
\* socket that is not in the room can join: it gets slot 1 and is not host.
C12_Witness ==
  \E c \in JoinRoomCalls :
    /\ RoomsHas(World, c.roomId)
    /\ LET room == heap[RoomsGet(World, c.roomId)]
       IN /\ room.players[1] = None
          /\ room.players[2] \notin {None, c.s}
          /\ room.players[2] \in connected
          /\ room.host = room.players[2]

\* C13: join_room on a room whose two slots are occupied emits one event, a
\* room-full error to the joiner, and changes nothing: slots, host, ready
\* set, settings, scores, round state, timers and groups are as before.
C13_FullRoomRejectsJoin ==
  \A c \in JoinRoomCalls :
    (/\ RoomsHas(World, c.roomId)
     /\ getPlayerCount(heap[RoomsGet(World, c.roomId)]) = MAX_PLAYERS) =>
      /\ OnlyErrorTo(c.w, c.s, "Room is full!")
      /\ Unchanged(c.w)

\* C13 witness: a join can be sent to a full room that has settings, a
\* score and a round running.
C13_Witness ==
  \E c \in JoinRoomCalls :
    /\ RoomsHas(World, c.roomId)
    /\ LET room == heap[RoomsGet(World, c.roomId)]
       IN /\ getPlayerCount(room) = MAX_PLAYERS
          /\ room.settings # Null
          /\ room.gameActive
          /\ room.readyPlayers = {}
          /\ room.scores.p1 + room.scores.p2 >= 1

\* C14: submit_settings and restart_game on a registered room from a socket
\* that is not the room's host emit one event, a not-host error to that
\* socket, and change nothing: no settings, no round start, no interval.
C14_NonHostIsRejected ==
  /\ \A c \in SubmitSettingsCalls :
       heap[c.o].host # c.s =>
         /\ OnlyErrorTo(c.w, c.s, "Only the host can set game settings")
         /\ Unchanged(c.w)
  /\ \A c \in RestartGameCalls :
       heap[c.o].host # c.s =>
         /\ OnlyErrorTo(c.w, c.s, "Only the Host can restart.")
         /\ Unchanged(c.w)

\* C14 witness: the occupant of a slot who is not the host can send
\* restart_game and valid settings to a configured, idle room whose host is
\* present.
C14_Witness ==
  \E c \in RestartGameCalls, d \in SubmitSettingsCalls :
    /\ c.s = d.s
    /\ c.o = d.o
    /\ heap[c.o].host # c.s
    /\ heap[c.o].host \in connected
    /\ c.s \in Occupants(heap[c.o])
    /\ heap[c.o].settings # Null
    /\ ~heap[c.o].gameActive
    /\ d.settings # Null
    /\ d.settings # heap[c.o].settings
    /\ enabledClueCount(d.settings) >= 1
    /\ d.settings.enabledContinents # {}

\* C15: toggle_ready from the host of a room without settings emits one
\* event, a settings-required error to the host, and changes nothing: the
\* ready set is as before and no round is started.
C15_HostNeedsConfigToReady ==
  \A c \in ToggleReadyCalls :
    (heap[c.o].host = c.s /\ heap[c.o].settings = Null) =>
      /\ OnlyErrorTo(c.w, c.s, "Please set game settings first")
      /\ Unchanged(c.w)

\* C15 witness: the host of a room without settings can send ready while
\* the other occupant is ready already.
C15_Witness ==
  \E c \in ToggleReadyCalls :
    /\ heap[c.o].host = c.s
    /\ heap[c.o].settings = Null
    /\ c.isReady
    /\ getPlayerCount(heap[c.o]) = MAX_PLAYERS
    /\ Occupants(heap[c.o]) \ {c.s} # {}
    /\ Occupants(heap[c.o]) \ {c.s} \subseteq heap[c.o].readyPlayers

\* C16: restart_game from the host leaves the room active with clue index 0
\* and exactly one live interval, the room's current one, whatever the
\* state of the room before.
C16_RestartAlwaysStarts ==
  \A c \in RestartGameCalls :
    heap[c.o].host = c.s =>
      /\ c.w.heap[c.o].gameActive
      /\ c.w.heap[c.o].clueIndex = 0
      /\ {h \in Handles : c.w.timers[h] = c.o} = {c.w.heap[c.o].interval}

\* The calls that reach startGameLoop in the current state: a toggle_ready
\* that is not rejected and after which areAllReady() holds, and a
\* restart_game from the host; o is the room and w the call's result.
RoundStarts ==
  {[o |-> c.o, w |-> c.w] :
     c \in {d \in ToggleReadyCalls :
              /\ ~(heap[d.o].host = d.s /\ heap[d.o].settings = Null)
              /\ areAllReady(setReady(heap[d.o], d.s, d.isReady))}}
  \cup {[o |-> c.o, w |-> c.w] :
     c \in {d \in RestartGameCalls : heap[d.o].host = d.s}}

C19_FinalOnlyAtCap ==
  /\ \A c \in TickCalls :
       \A i \in Positions(c.w.emitted, "game_over") :
         /\ c.w.emitted[i].data.winner = "draw"
         /\ c.w.emitted[i].data.finalGame <=>
              (/\ Truthy(heap[c.o].settings.maxRounds)
               /\ heap[c.o].currentRound >= heap[c.o].settings.maxRounds[1])
  /\ \A c \in SendGuessCalls :
       \A i \in Positions(c.w.emitted, "game_over") :
         /\ c.w.emitted[i].data.winner \in {"player1", "player2"}
         /\ ~c.w.emitted[i].data.finalGame

\* C19 witness: in one state a final draw and a winning guess are both
\* possible for a room.
C19_Witness ==
  \E c \in TickCalls, g \in SendGuessCalls :
    /\ heap[c.o].roomId = g.roomId
    /\ Truthy(heap[c.o].settings.maxRounds)
    /\ \E i \in Positions(g.w.emitted, "game_over") :
         ~g.w.emitted[i].data.finalGame
    /\ \E i \in Positions(c.w.emitted, "game_over") :
         c.w.emitted[i].data.finalGame

\* The callbacks left before the round of an active room ends, when
\* nothing but the interval touches the room: the rest of the current clue
\* and the full duration of every later clue.
TicksLeft(room) ==
  (Len(room.clueSchedule) - 1 - room.clueIndex) * room.settings.clueTime[1]
    + room.timer[1]

\* The room is in a round with n >= 1 clues of d >= 1 seconds each, at a
\* clue of the schedule with 1..d seconds of it left.
InRound(room) ==
  /\ room.gameActive
  /\ room.settings # Null
  /\ Len(room.clueSchedule) >= 1
  /\ IsNum(room.settings.clueTime)
  /\ IsNum(room.timer)
  /\ room.settings.clueTime[1] >= 1
  /\ room.timer[1] \in 1..room.settings.clueTime[1]
  /\ room.clueIndex \in 0..(Len(room.clueSchedule) - 1)

\* C20: a round with a schedule of n >= 1 clues of d >= 1 seconds starts
\* with n*d callbacks left; each callback takes one off; the callback that
\* uses up a clue that is not the last emits next_clue with the next index
\* and no other does; the callback that takes the last one emits game_over
\* with winner "draw" and leaves the room without a live interval, so that
\* nothing follows it.
C20_DrawAfterAllClues ==
  /\ \A c \in RoundStarts :
       (~c.w.thrown /\ InRound(c.w.heap[c.o])) =>
         TicksLeft(c.w.heap[c.o]) =
           Len(c.w.heap[c.o].clueSchedule) * c.w.heap[c.o].settings.clueTime[1]
  /\ \A c \in TickCalls :
       InRound(heap[c.o]) =>
         LET room == heap[c.o]
             after == c.w.heap[c.o]
             over == Positions(c.w.emitted, "game_over")
             next == Positions(c.w.emitted, "next_clue")
         IN IF TicksLeft(room) > 1
            THEN /\ over = {}
                 /\ InRound(after)
                 /\ c.w.timers[c.h] = c.o
                 /\ TicksLeft(after) = TicksLeft(room) - 1
                 /\ IF room.timer[1] = 1
                    THEN /\ Cardinality(next) = 1
                         /\ after.clueIndex = room.clueIndex + 1
                         /\ \A i \in next :
                              c.w.emitted[i].data.clueIndex = after.clueIndex
                    ELSE /\ next = {}
                         /\ after.clueIndex = room.clueIndex
            ELSE /\ Cardinality(over) = 1
                 /\ \A i \in over : c.w.emitted[i].data.winner = "draw"
                 /\ next = {}
                 /\ ~after.gameActive
                 /\ \A h \in Handles : c.w.timers[h] # c.o

\* C20 witness: the last second of the last of two clues of two or more
\* seconds each is about to run out, with both occupants present.
C20_Witness ==
  \E c \in TickCalls :
    /\ InRound(heap[c.o])
    /\ TicksLeft(heap[c.o]) = 1
    /\ Len(heap[c.o].clueSchedule) >= 2
    /\ heap[c.o].settings.clueTime[1] >= 2
    /\ Cardinality(Occupants(heap[c.o])) = MAX_PLAYERS
    /\ Occupants(heap[c.o]) \subseteq connected
    /\ WithinBounds(c.w)

\* The sockets an emitted event is delivered to: the socket itself, or the
\* sockets in the room's group but the excepted one.
Recipients(e) ==
  IF e.to.kind = "socket" THEN {e.to.id}
  ELSE members[e.to.id] \ {e.to.except}

\* C21: send_guess on a registered room that is not active emits nothing
\* and changes nothing, whether or not the text matches the last target.
C21_GuessOnIdleRoomIsNoOp ==
  \A c \in SendGuessCalls :
    (/\ RoomsHas(World, c.roomId)
     /\ ~heap[RoomsGet(World, c.roomId)].gameActive) =>
      /\ c.w.emitted = <<>>
      /\ Unchanged(c.w)

\* C21 witness: a guess that matches the target of the round that ended can
\* be sent to a room that is not active.
C21_Witness ==
  \E c \in SendGuessCalls :
    /\ RoomsHas(World, c.roomId)
    /\ LET room == heap[RoomsGet(World, c.roomId)]
       IN /\ ~room.gameActive
          /\ room.currentCountry # Null
          /\ c.s \in Occupants(room)
          /\ normalize(c.guess) = normalize(room.currentCountry.country)

\* C22: send_guess with a text that does not match, on an active room,
\* emits one event, opponent_guess with the text as sent, delivered to the
\* connected occupants other than the submitter and to no one else, and
\* changes nothing.
C22_MissGoesToOpponentOnly ==
  \A c \in SendGuessCalls :
    (/\ RoomsHas(World, c.roomId)
     /\ heap[RoomsGet(World, c.roomId)].gameActive
     /\ ~Matches(c.roomId, c.guess)) =>
      /\ Len(c.w.emitted) = 1
      /\ c.w.emitted[1].ev = "opponent_guess"
      /\ c.w.emitted[1].data.guess = c.guess
      /\ c.s \notin Recipients(c.w.emitted[1])
      /\ Recipients(c.w.emitted[1]) =
           (Occupants(heap[RoomsGet(World, c.roomId)]) \cap connected) \ {c.s}
      /\ Unchanged(c.w)

\* C22 witness: an occupant of an active room with two connected occupants
\* can send a text that does not match and is changed by normalizing.
C22_Witness ==
  \E c \in SendGuessCalls :
    /\ RoomsHas(World, c.roomId)
    /\ LET room == heap[RoomsGet(World, c.roomId)]
       IN /\ room.gameActive
          /\ ~Matches(c.roomId, c.guess)
          /\ normalize(c.guess) # c.guess
          /\ c.s \in Occupants(room)
          /\ Cardinality(Occupants(room) \cap connected) = MAX_PLAYERS

\* The submit_settings calls the handler accepts.
AcceptedSettingsCalls ==
  {c \in SubmitSettingsCalls :
     /\ heap[c.o].host = c.s
     /\ c.settings # Null
     /\ enabledClueCount(c.settings) >= 1
     /\ c.settings.enabledContinents # {}}

\* C23: an accepted submit_settings stores the settings and the schedule
\* derived from them, emits settings_updated to the room and no
\* game_started, and leaves the active flag, the target, the clue index,
\* the interval, the scores, the round number, the slots, the host and the
\* ready set as they are.
C23_SettingsDoNotStartRound ==
  \A c \in AcceptedSettingsCalls :
    LET room == heap[c.o]
        after == c.w.heap[c.o]
    IN /\ after.settings = c.settings
       /\ after.clueSchedule = setSettings(NewRoom(None), c.settings).clueSchedule
       /\ after = [room EXCEPT !.settings = after.settings,
                               !.clueSchedule = after.clueSchedule,
                               !.timer = after.timer]
       /\ c.w.rooms = rooms
       /\ c.w.timers = timers
       /\ c.w.members = members
       /\ ~c.w.thrown
       /\ Positions(c.w.emitted, "game_started") = {}
       /\ Len(c.w.emitted) = 1
       /\ c.w.emitted[1].ev = "settings_updated"
       /\ c.w.emitted[1].to = ToRoom(room.roomId)
       /\ c.w.emitted[1].data.settings = c.settings

\* C23 witness: the host can replace the settings of a room, in the middle
\* of a round and past its first clue, by settings with another schedule.
C23_Witness ==
  \E c \in AcceptedSettingsCalls :
    /\ heap[c.o].gameActive
    /\ heap[c.o].clueIndex >= 1
    /\ heap[c.o].settings # c.settings
    /\ c.w.heap[c.o].clueSchedule # heap[c.o].clueSchedule

\* The room objects the Map holds in the result w of a call.
RegisteredIn(w) == {w.rooms[i].obj : i \in 1..Len(w.rooms)}

\* The results of the disconnects that can happen in the current state.
DisconnectCalls ==
  {[s |-> s, w |-> disconnect(World, s)] : s \in connected}

\* The results of the cleanup interval's callback in the current state, for
\* every set of room ids that may have outlived the retention window.
SweepCalls ==
  {[old |-> old, w |-> sweep(World, old)] : old \in SUBSET RoomIds}

\* The removals from the Map that can happen in the current state: the room
\* object o is registered and is not in the Map of the result w.
Removals ==
  {[o |-> o, w |-> c.w] : o \in Registered, c \in DisconnectCalls}
  \cup {[o |-> o, w |-> c.w] : o \in Registered, c \in SweepCalls}

\* C24: a room object that a disconnect or the sweep takes out of the Map
\* is inactive and without interval when the handler returns, and no live
\* interval is left for it; every live interval belongs to a registered
\* room; and a join_room with an id that is not in the Map makes a new
\* room: scores 0, no settings, round number 1, empty ready set, no target,
\* not active.
C24_RemovedRoomIsStopped ==
  /\ \A c \in Removals :
       c.o \notin RegisteredIn(c.w) =>
         /\ ~c.w.heap[c.o].gameActive
         /\ c.w.heap[c.o].interval = None
         /\ \A h \in Handles : c.w.timers[h] # c.o
  /\ \A h \in Handles : timers[h] # None => timers[h] \in Registered
  /\ \A c \in JoinRoomCalls :
       ~RoomsHas(World, c.roomId) =>
         LET room == c.w.heap[RoomsGet(c.w, c.roomId)]
         IN /\ room.scores = [p1 |-> 0, p2 |-> 0]
            /\ room.settings = Null
            /\ room.currentRound = 1
            /\ room.readyPlayers = {}
            /\ room.currentCountry = Null
            /\ ~room.gameActive
            /\ room.interval = None
            /\ Occupants(room) = {c.s}

\* C24 witness: the last occupant of a room with a score, in the middle of
\* a round, can disconnect, which takes the room out of the Map.
C24_Witness ==
  \E c \in Removals :
    /\ c.o \notin RegisteredIn(c.w)
    /\ heap[c.o].gameActive
    /\ heap[c.o].interval # None
    /\ timers[heap[c.o].interval] = c.o
    /\ heap[c.o].scores.p1 + heap[c.o].scores.p2 >= 1

\* C25: the cleanup callback takes a room out of the Map exactly when none
\* of its slots is occupied and its id is among those past the retention
\* window, and puts no room in; a room with an occupied slot stays,
\* whatever its age.
C25_SweepRemovesEmptyOldOnly ==
  \A c \in SweepCalls :
    /\ RegisteredIn(c.w) \subseteq Registered
    /\ \A i \in 1..Len(rooms) :
         rooms[i].obj \notin RegisteredIn(c.w) <=>
           (/\ getPlayerCount(heap[rooms[i].obj]) = 0
            /\ rooms[i].id \in c.old)

\* C25 witness: the cleanup callback can fire when an occupied room, with a
\* round running, is past the retention window.
C25_Witness ==
  \E c \in SweepCalls, i \in 1..Len(rooms) :
    /\ rooms[i].id \in c.old
    /\ getPlayerCount(heap[rooms[i].obj]) >= 1
    /\ heap[rooms[i].obj].gameActive

\* C29: a disconnect of the host of a room makes the occupant of the other
\* slot host, or clears the host when the other slot is empty; a disconnect
\* of an occupant who is not the host leaves the host as it is.
C29_HostMigration ==
  \A c \in DisconnectCalls :
    \A o \in Registered :
      c.s \in Occupants(heap[o]) =>
        LET room == heap[o]
            other == IF room.players[1] = c.s THEN room.players[2]
                     ELSE room.players[1]
        IN c.w.heap[o].host =
             (IF room.host = c.s THEN other ELSE room.host)

\* C29 witness: the host, who holds slot 2 after an earlier migration, can
\* disconnect while another connected socket holds slot 1.
C29_Witness ==
  \E c \in DisconnectCalls :
    \E o \in Registered :
      /\ heap[o].host = c.s
      /\ heap[o].players[2] = c.s
      /\ heap[o].players[1] \notin {None, c.s}
      /\ heap[o].players[1] \in connected

\* The results of the submit_settings, toggle_ready, restart_game and
\* send_guess calls the connected sockets can make in the current state
\* with a room id that is not in the Map.
UnknownRoomCalls ==
  LET absent == {r \in RoomIds : ~RoomsHas(World, r)}
  IN {[s |-> c[1], w |-> submit_settings(World, c[1], c[2], c[3])] :
        c \in connected \X absent \X SettingsInputs}
     \cup {[s |-> c[1],
            w |-> toggle_ready(World, c[1], c[2], c[3], Null,
                               NextHandle(c[2]))] :
        c \in connected \X absent \X BOOLEAN}
     \cup {[s |-> c[1],
            w |-> restart_game(World, c[1], c[2], Null, NextHandle(c[2]))] :
        c \in connected \X absent}
     \cup {[s |-> c[1], w |-> send_guess(World, c[1], c[2], c[3], c[4])] :
        c \in connected \X absent \X GuessInputs \X PlayerNumInputs}

\* C27: submit_settings, toggle_ready, restart_game and send_guess with a
\* room id that is not in the Map create no room, change nothing, and emit
\* one event, an error to the calling socket.
C27_UnknownRoomIsReported ==
  \A c \in UnknownRoomCalls :
    /\ Unchanged(c.w)
    /\ Len(c.w.emitted) = 1
    /\ c.w.emitted[1].ev = "error_message"
    /\ c.w.emitted[1].to = ToSocket(c.s)

\* ------------------------------------------------------------ normalize
\* The characters of the strings normalize is applied to: a lowercase
\* letter, an uppercase letter, a digit, a punctuation mark and an accented
\* letter in both cases.
Alphabet == {"a", "P", "1", "!", "é", "É"}

Strings == UNION {[1..n -> Alphabet] : n \in 0..MaxStrLen}

InitNormalize ==
  /\ rooms = <<>>
  /\ heap = [o \in ObjIds |-> FreeCell]
  /\ timers = [h \in Handles |-> None]
  /\ members = [r \in RoomIds |-> {}]
  /\ connected = MainConns
  /\ thrown = FALSE
  /\ strs \in {<<str>> : str \in Strings}
  /\ starts = [o \in ObjIds |-> -1]

\* normalize is applied to the last string, the argument at first and then
\* the result of the application before.
Normalize ==
  /\ Len(strs) \in 1..2
  /\ strs' = Append(strs, normalize(strs[Len(strs)]))
  /\ UNCHANGED <<rooms, heap, timers, members, connected, thrown, starts>>

NextNormalize == Normalize

\* normalize applied twice in turn to every string over the alphabet.
SpecNormalize == InitNormalize /\ [][NextNormalize]_vars

\* C28: normalize is idempotent: applied to its own result it returns that
\* result.
C28_NormalizeIdempotent == Len(strs) = 3 => strs[3] = strs[2]

\* C28 witness: normalize was applied twice, starting from a string with an
\* uppercase letter, a punctuation mark and an accented letter that it
\* turned into a shorter, non-empty one.
C28_Witness ==
  /\ Len(strs) = 3
  /\ strs[2] # <<>>
  /\ Len(strs[2]) < Len(strs[1])
  /\ {"P", "!", "é"} \subseteq {strs[1][i] : i \in 1..Len(strs[1])}

\* ------------------------------------------------------- clue schedules
\* The clue counts clients send: none, negative, zero, within and beyond
\* the number of keys.
ClueCountInputs == {NaN, Num(-1), Num(0), Num(1), Num(2), Num(3), Num(9)}

\* The sets of enabled clue keys clients send: the subsets of four keys of
\* the master list, taken from its start, middle and end, and all of it.
EnableCluesInputs ==
  (SUBSET {"flag", "region", "currency", "cities"})
    \cup {{DEFAULT_CLUE_SCHEDULE[i] : i \in 1..Len(DEFAULT_CLUE_SCHEDULE)}}

ConfigInputs ==
  {Settings(Num(1), n, keys, regions, NaN) :
     n \in ClueCountInputs, keys \in EnableCluesInputs,
     regions \in {{"All"}, {"Africa"}}}

NextConfig ==
  \/ JoinRoom("A", "R1")
  \/ \E settings \in ConfigInputs : SubmitSettings("A", "R1", settings)

\* One host on one room submitting settings with every combination of
\* enabled keys and clue count.
SpecConfig == Init /\ [][NextConfig]_vars

\* The position of a key in the master list.
MasterIndex(key) ==
  CHOOSE i \in 1..Len(DEFAULT_CLUE_SCHEDULE) : DEFAULT_CLUE_SCHEDULE[i] = key

\* C26: the clue schedule of every room with accepted settings and a
\* numeric clue count has min(number of enabled master keys, clue count)
\* keys, all of them enabled, in the order of the master list.
C26_ScheduleIsMasterPrefix ==
  \A o \in Registered :
    (heap[o].settings # Null /\ IsNum(heap[o].settings.cluesPerRound)) =>
      LET sched == heap[o].clueSchedule
          enabled == heap[o].settings.enableClues \cap
                       {DEFAULT_CLUE_SCHEDULE[i] :
                          i \in 1..Len(DEFAULT_CLUE_SCHEDULE)}
          count == heap[o].settings.cluesPerRound[1]
      IN /\ Len(sched) = (IF Cardinality(enabled) < count
                          THEN Cardinality(enabled) ELSE count)
         /\ \A i \in 1..Len(sched) : sched[i] \in enabled
         /\ \A i, j \in 1..Len(sched) :
              i < j => MasterIndex(sched[i]) < MasterIndex(sched[j])

\* ------------------------------------------------------------ liveness
\* The settings payloads of the liveness specification, both accepted by
\* the handler: two clues of MaxClueTime seconds with a round cap, and one
\* clue without clueTime.
LiveSettingsInputs ==
  {Settings(Num(MaxClueTime), Num(2), {"flag", "region", "currency"},
            {"All"}, Num(MaxRound)),
   Settings(NaN, Num(1), {"region"}, {"All"}, NaN)}

\* No round is running on the room of roomId.
Idle(roomId) ==
  IF RoomsGet(World, roomId) = None THEN TRUE
  ELSE ~heap[RoomsGet(World, roomId)].gameActive

\* Rounds are left to run: settings are submitted and rounds are started on
\* idle rooms only, so that a round ends by a win, a draw or a stop and
\* not by the start of the next one.
NextLive ==
  \/ \E s \in MainConns, roomId \in MainRooms : JoinRoom(s, roomId)
  \/ \E s \in MainConns, roomId \in MainRooms, settings \in LiveSettingsInputs :
       Idle(roomId) /\ SubmitSettings(s, roomId, settings)
  \/ \E s \in MainConns, roomId \in MainRooms, isReady \in BOOLEAN :
       Idle(roomId) /\ ToggleReady(s, roomId, isReady)
  \/ \E s \in MainConns, roomId \in MainRooms :
       Idle(roomId) /\ RestartGame(s, roomId)
  \/ \E s \in MainConns, roomId \in MainRooms, guess \in GuessInputs,
        playerNum \in PlayerNumInputs : SendGuess(s, roomId, guess, playerNum)
  \/ \E s \in MainConns : Disconnect(s)
  \/ \E h \in Handles : Tick(h)

\* setInterval fires a live interval again and again.
SpecLive ==
  Init /\ [][NextLive]_vars /\ WF_vars(\E h \in Handles : Tick(h))

\* C30: every room object that is active is inactive at some later time.
C30_RoundEnds ==
  \A o \in ObjIds : heap[o].gameActive ~> ~heap[o].gameActive

\* ------------------------------------------------------- claims C31..C37
\* C31: stopGame() on a registered room leaves it inactive, without
\* interval handle and without live interval, and emits nothing; applied
\* to its own result it changes nothing; and on a room that is inactive and
\* without interval handle already it changes nothing.
C31_StopGameIdempotent ==
  \A o \in Registered :
    LET once == stopGame(World, o)
    IN /\ ~once.heap[o].gameActive
       /\ once.heap[o].interval = None
       /\ \A h \in Handles : once.timers[h] # o
       /\ once.emitted = <<>>
       /\ stopGame(once, o) = once
       /\ (~heap[o].gameActive /\ heap[o].interval = None) => once = World

\* C31 witness: stopGame() can be called on a room in the middle of a
\* round, with its interval live.
C31_Witness ==
  \E o \in Registered :
    /\ heap[o].gameActive
    /\ heap[o].interval # None
    /\ timers[heap[o].interval] = o
    /\ stopGame(World, o) # World

\* C32: a disconnect of a socket that holds a slot of a room clears the
\* first slot that holds it and leaves the other slot as it is; if the room
\* stays in the Map, the next join_room on it, by any other socket, is
\* assigned the slot that was cleared, and the other slot is as before.
C32_OtherSlotStaysOnLeave ==
  \A c \in DisconnectCalls :
    \A o \in Registered :
      c.s \in Occupants(heap[o]) =>
        LET room == heap[o]
            n == IF room.players[1] = c.s THEN 1 ELSE 2
            other == IF n = 1 THEN 2 ELSE 1
        IN /\ c.w.heap[o].players[n] = None
           /\ c.w.heap[o].players[other] = room.players[other]
           /\ o \in RegisteredIn(c.w) =>
                \A t \in connected \ {c.s} :
                  LET j == join_room([c.w EXCEPT !.emitted = <<>>], t,
                                     room.roomId)
                  IN /\ j.heap[o].players[n] = t
                     /\ j.heap[o].players[other] = room.players[other]
                     /\ j.emitted[1].ev = "player_assigned"
                     /\ j.emitted[1].to = ToSocket(t)
                     /\ j.emitted[1].data.num = n

\* C32 witness: the occupant of slot 1 can disconnect from a room whose
\* slot 2 holds another connected socket, while a third socket is
\* connected and in no room.
C32_Witness ==
  \E c \in DisconnectCalls :
    \E o \in Registered :
      /\ heap[o].players[1] = c.s
      /\ heap[o].players[2] \notin {None, c.s}
      /\ heap[o].players[2] \in connected
      /\ \E t \in connected \ Occupants(heap[o]) : SlotsOf(t) = {}

\* The sockets a room holds: in a slot, in the ready set or as host.
HeldBy(room) == (Occupants(room) \cup room.readyPlayers \cup {room.host}) \ {None}

\* C33: when the disconnect handler of a socket has returned, no room in
\* the Map holds that socket, in a slot, in its ready set or as host.
C33_DisconnectReleasesHandle ==
  \A c \in DisconnectCalls :
    \A o \in RegisteredIn(c.w) : c.s \notin HeldBy(c.w.heap[o])

\* C34: on a room that is active, a join_room, a submit_settings, a
\* send_guess, a toggle_ready that starts no round and a disconnect leave
\* the timer as it is; a round start sets it to settings.clueTime; and the
\* interval callback takes one off it or, on a clue advance, sets it to
\* settings.clueTime.
C34_CountdownChangedByTickOnly ==
  /\ \A c \in JoinRoomCalls :
       \A o \in Registered :
         heap[o].gameActive => c.w.heap[o].timer = heap[o].timer
  /\ \A c \in SubmitSettingsCalls :
       heap[c.o].gameActive => c.w.heap[c.o].timer = heap[c.o].timer
  /\ \A c \in SendGuessCalls :
       \A o \in Registered :
         heap[o].gameActive => c.w.heap[o].timer = heap[o].timer
  /\ \A c \in DisconnectCalls :
       \A o \in Registered :
         heap[o].gameActive => c.w.heap[o].timer = heap[o].timer
  /\ \A c \in ToggleReadyCalls :
       (heap[c.o].gameActive /\ Positions(c.w.emitted, "game_started") = {}) =>
         c.w.heap[c.o].timer = heap[c.o].timer
  /\ \A c \in RoundStarts :
       ~c.w.thrown => c.w.heap[c.o].timer = c.w.heap[c.o].settings.clueTime
  /\ \A c \in TickCalls :
       heap[c.o].gameActive =>
         c.w.heap[c.o].timer =
           (IF Positions(c.w.emitted, "next_clue") # {}
            THEN heap[c.o].settings.clueTime
            ELSE Decrement(heap[c.o].timer))

\* C35: a registered room is active exactly when it has an interval handle,
\* and that handle is then the one live interval of the room.
C35_ActiveIffIntervalArmed ==
  \A o \in Registered :
    /\ heap[o].gameActive <=> heap[o].interval # None
    /\ heap[o].gameActive =>
         {h \in Handles : timers[h] = o} = {heap[o].interval}

\* C35 witness: a room is idle, without interval handle, after two rounds
\* were started on it and one of them ended by a winning guess.
C35_Witness ==
  \E o \in Registered :
    /\ ~heap[o].gameActive
    /\ heap[o].interval = None
    /\ heap[o].scores.p1 + heap[o].scores.p2 >= 1
    /\ heap[o].currentRound >= 2

\* ---------------------------------------------------------------- scores
InitScore ==
  /\ rooms = <<>>
  /\ heap = [o \in ObjIds |-> FreeCell]
  /\ timers = [h \in Handles |-> None]
  /\ members = [r \in RoomIds |-> {}]
  /\ connected = MainConns
  /\ thrown = FALSE
  /\ strs = <<>>
  /\ starts = [o \in ObjIds |-> 0]

\* The main specification with the round starts of every room counted.
SpecScore == InitScore /\ [][Next]_vars

\* The points awarded in a room.
Total(room) == room.scores.p1 + room.scores.p2

\* C36: after every step the points of a registered room are at most the
\* rounds started on it; and a step leaves both scores of a room that stays
\* registered as they are or adds one point to one of them, which it does
\* only on an active room and by ending its round.
C36_ScoresOnlyGrow ==
  [][\A o \in Registered' :
       /\ Total(heap'[o]) <= starts'[o]
       /\ o \in Registered =>
            /\ heap'[o].scores.p1 >= heap[o].scores.p1
            /\ heap'[o].scores.p2 >= heap[o].scores.p2
            /\ Total(heap'[o]) <= Total(heap[o]) + 1
            /\ Total(heap'[o]) = Total(heap[o]) + 1 =>
                 heap[o].gameActive /\ ~heap'[o].gameActive]_vars

\* C36 witness: a room with a point has a later round running, after the
\* occupant of slot 1 left it.
C36_Witness ==
  \E o \in Registered :
    /\ Total(heap[o]) >= 1
    /\ starts[o] >= 2
    /\ heap[o].gameActive
    /\ heap[o].players[1] = None
    /\ heap[o].players[2] \in connected

\* C37: every room in the Map has an occupied slot.
C37_RegisteredRoomIsOccupied ==
  \A o \in Registered : getPlayerCount(heap[o]) >= 1

\* C37 witness: a room with one occupant, who can disconnect, which takes
\* the room out of the Map, and another socket is connected that can make
\* a room of the same id afterwards.
C37_Witness ==
  \E c \in DisconnectCalls :
    \E o \in Registered :
      /\ Occupants(heap[o]) = {c.s}
      /\ getPlayerCount(heap[o]) = 1
      /\ o \notin RegisteredIn(c.w)
      /\ connected \ {c.s} # {}
      /\ heap[o].settings # Null

====
